---- MODULE Spec2Model ----
(***************************************************************************)
(* simple-people-benchmark: the evaluation orchestrator (Benchmark.run,    *)
(* Benchmark._run_searcher, Benchmark._grade), the enrichment step         *)
(* (enrich_results), the grader's fault handling (PeopleGrader.grade) and  *)
(* the metrics aggregator (compute_retrieval_metrics).                     *)
(*                                                                         *)
(* Scheduling is asyncio's: one thread, tasks interleave only at awaits.   *)
(* Every action below is the code between two suspension points of one     *)
(* task.  External calls (search, content fetch, LLM grading) return a     *)
(* value or raise, chosen nondeterministically.                            *)
(***************************************************************************)
EXTENDS FiniteSets, Integers, Sequences, TLC

\* ------------------------------------------------------------------ bounds
\* Largest number of lines in the dataset file.
MaxQueries == 2
\* Largest number of results one search call returns.
MaxResults == 2
\* Capacity of the per-searcher semaphore (asyncio.Semaphore(20) in the
\* source), scaled so that more queries than slots exist.
QueryConcurrency == 1
\* grading_concurrency handed to Benchmark (default 50 in the source), scaled
\* so that more grading calls than permits exist.
GradingConcurrency == 2

\* ------------------------------------------------------------ input domains
\* An optional value is a sequence of length 0 (None) or 1.
None == << >>
Some(x) == <<x>>
\* s.name of the searchers handed to Benchmark (exa.py:10, brave.py:10).
Searchers == {"exa", "brave"}
QueryIds == 1..MaxQueries
\* config.limit: absent, or a positive integer below the dataset's largest
\* size.
Limits == {None} \cup {Some(l) : l \in 1..(MaxQueries - 1)}
\* The dataset file: n lines, the i-th holding the query with query_id i.
Dataset(n) == [i \in 1..n |-> i]
\* What the LLM call inside PeopleGrader.grade can yield: a parsed judgment
\* with a score in tenths (PeopleGradeResult.score is in [0.0, 1.0]), a
\* response whose parsed field is None, or an exception of the API call.
Judgments ==
    {[kind |-> "parsed", score |-> 4], [kind |-> "parsed", score |-> 5],
     [kind |-> "unparsed", score |-> 0], [kind |-> "error", score |-> 0]}

\* The i-th result of a search response.  Results differ by position, and
\* every second one has an empty url.
UrlPool == <<"u1", "", "u3", "u4", "">>
Names == <<"1", "2", "3", "4", "5">>
SearchResult(url, title, text, metadata) ==
    [url |-> url, title |-> title, text |-> text, metadata |-> metadata]
Hit(i) ==
    LET n == ((i - 1) % 5) + 1
    IN SearchResult(UrlPool[n], <<"title", Names[n]>>, <<"snippet", Names[n]>>, <<"meta", Names[n]>>)
\* The result lists a search call can return: k results, k <= MaxResults.
SearchResponse(k) == [i \in 1..k |-> Hit(i)]
\* The page text the content API holds for a url.
Page(url) == <<"page", url>>
\* What the content API can answer for a list of urls: text for any subset.
FetchResponses(urls) == {[u \in ok |-> Page(u)] : ok \in SUBSET urls}

\* ------------------------------------------------------------ Python floats
\* A float is a sign and a magnitude.  The magnitude is an exact fixed-point
\* number: Limbs digits in base Base, most significant first, the first digit
\* being the integer part.  Every IEEE 754 binary64 value the aggregator can
\* produce (a multiple of 2^-64 below Base) is such a number, and every
\* operation rounds its exact result to Mantissa significant bits, ties to
\* even, as binary64 arithmetic does.
LimbBits == 16
Base == 65536
Limbs == 5
Mantissa == 53
Mags == [1..Limbs -> 0..(Base - 1)]
Floats == [neg : BOOLEAN, mag : Mags]
MagOf(k) == [i \in 1..Limbs |-> IF i = 1 THEN k ELSE 0]
\* float(k) of a small non-negative int.
FloatOf(k) == [neg |-> FALSE, mag |-> MagOf(k)]

\* Exact arithmetic on magnitudes.
MagAddCarry[a \in Mags, b \in Mags, i \in 1..(Limbs + 1)] ==
    IF i = Limbs + 1 THEN 0 ELSE (a[i] + b[i] + MagAddCarry[a, b, i + 1]) \div Base
MagAdd[a \in Mags, b \in Mags] ==
    [i \in 1..Limbs |-> (a[i] + b[i] + MagAddCarry[a, b, i + 1]) % Base]
MagSubBorrow[a \in Mags, b \in Mags, i \in 1..(Limbs + 1)] ==
    IF i = Limbs + 1 THEN 0
    ELSE IF a[i] - b[i] - MagSubBorrow[a, b, i + 1] < 0 THEN 1 ELSE 0
\* a - b for a >= b.
MagSub[a \in Mags, b \in Mags] ==
    [i \in 1..Limbs |-> (a[i] - b[i] - MagSubBorrow[a, b, i + 1] + Base) % Base]
MagLess[a \in Mags, b \in Mags] ==
    \E i \in 1..Limbs : a[i] < b[i] /\ \A j \in 1..(i - 1) : a[j] = b[j]
\* The remainder of the first i digits of a by n.
MagRem[a \in Mags, n \in 1..Base, i \in 0..Limbs] ==
    IF i = 0 THEN 0 ELSE (MagRem[a, n, i - 1] * Base + a[i]) % n
\* a \div n, digit by digit.
MagDiv[a \in Mags, n \in 1..Base] ==
    [i \in 1..Limbs |-> (MagRem[a, n, i - 1] * Base + a[i]) \div n]

\* Bits are numbered from 0, the lowest bit of the last digit.
LimbOf(p) == Limbs - (p \div LimbBits)
TopBit[a \in Mags] ==
    IF \A i \in 1..Limbs : a[i] = 0 THEN -1
    ELSE LET i == CHOOSE j \in 1..Limbs : a[j] # 0 /\ \A k \in 1..(j - 1) : a[k] = 0
             o == CHOOSE k \in 0..(LimbBits - 1) : 2^k <= a[i] /\ a[i] < 2^(k + 1)
         IN (Limbs - i) * LimbBits + o
BitAt(a, p) == (a[LimbOf(p)] \div 2^(p % LimbBits)) % 2
\* Some bit of a below bit p is set.
AnyBelow(a, p) ==
    \/ a[LimbOf(p)] % 2^(p % LimbBits) # 0
    \/ \E i \in (LimbOf(p) + 1)..Limbs : a[i] # 0
\* a with the bits below bit p cleared.
Truncated(a, p) ==
    [i \in 1..Limbs |->
        IF i < LimbOf(p) THEN a[i]
        ELSE IF i = LimbOf(p) THEN a[i] - (a[i] % 2^(p % LimbBits)) ELSE 0]
PowerOfTwo(p) == [i \in 1..Limbs |-> IF i = LimbOf(p) THEN 2^(p % LimbBits) ELSE 0]
\* Round to nearest, ties to even: the exact value is a, plus a positive
\* amount below the last bit of a when inexact holds.
Round[a \in Mags, inexact \in BOOLEAN] ==
    LET ulp == TopBit[a] - (Mantissa - 1)
    IN IF ulp <= 0 THEN a
       ELSE IF BitAt(a, ulp - 1) = 1 /\ (inexact \/ AnyBelow(a, ulp - 1) \/ BitAt(a, ulp) = 1)
            THEN MagAdd[Truncated(a, ulp), PowerOfTwo(ulp)]
            ELSE Truncated(a, ulp)

Signed(neg, mag) == [neg |-> neg /\ mag # MagOf(0), mag |-> mag]
\* x + y
FloatAdd[x \in Floats, y \in Floats] ==
    IF x.neg = y.neg THEN Signed(x.neg, Round[MagAdd[x.mag, y.mag], FALSE])
    ELSE IF MagLess[x.mag, y.mag] THEN Signed(y.neg, Round[MagSub[y.mag, x.mag], FALSE])
    ELSE Signed(x.neg, Round[MagSub[x.mag, y.mag], FALSE])
\* x - y
FloatSub[x \in Floats, y \in Floats] == FloatAdd[x, [neg |-> ~y.neg, mag |-> y.mag]]
\* x / n for an int n >= 1 (also int / int, the dividend being float(k)).
FloatDiv[x \in Floats, n \in 1..Base] ==
    Signed(x.neg, Round[MagDiv[x.mag, n], MagRem[x.mag, n, Limbs] # 0])

\* The built-in sum() over floats, started from the int 0.  CPython up to
\* 3.11 adds from left to right; CPython from 3.12 on carries Neumaier's
\* compensation c along and adds it at the end.
PlainSum[values \in Seq(Floats), i \in Nat] ==
    IF i = 0 THEN FloatOf(0) ELSE FloatAdd[PlainSum[values, i - 1], values[i]]
\* One step of the compensated loop: acc.f is the running sum, acc.c the
\* running compensation.
Sums == [f : Floats, c : Floats]
Compensate[acc \in Sums, x \in Floats] ==
    LET t == FloatAdd[acc.f, x]
    IN [f |-> t,
        c |-> IF MagLess[acc.f.mag, x.mag]
              THEN FloatAdd[acc.c, FloatAdd[FloatSub[x, t], acc.f]]
              ELSE FloatAdd[acc.c, FloatAdd[FloatSub[acc.f, t], x]]]
CompensatedSum[values \in Seq(Floats), i \in Nat] ==
    IF i = 0 THEN [f |-> FloatOf(0), c |-> FloatOf(0)]
    ELSE Compensate[CompensatedSum[values, i - 1], values[i]]
SumImpls == {"plain", "compensated"}
sum(values, impl) ==
    IF impl = "plain" THEN PlainSum[values, Len(values)]
    ELSE FloatAdd[CompensatedSum[values, Len(values)].f, CompensatedSum[values, Len(values)].c]

\* --------------------------------------------------------------- metrics.py
\* A grade dict: is_match is 0.0 or 1.0, written 0 or 1.
GradeDicts == [query_id : Nat, rank : Nat, is_match : {0, 1}]
Zero == FloatOf(0)
One == FloatOf(1)

\* by_query's keys in insertion order (lines 14-19).
AddKey[keys \in Seq(Nat), qid \in Nat] ==
    IF \E i \in 1..Len(keys) : keys[i] = qid THEN keys ELSE Append(keys, qid)
QueryOrder[grades \in Seq(GradeDicts)] ==
    IF grades = << >> THEN << >>
    ELSE AddKey[QueryOrder[SubSeq(grades, 1, Len(grades) - 1)], grades[Len(grades)].query_id]
\* by_query[qid] before sorting: the grades of qid in input order.
GroupOf(grades, qid) == SelectSeq(grades, LAMBDA g : g.query_id = qid)
\* list.sort(key=rank) (line 22): stable insertion into a sorted list.
InsertByRank[sorted \in Seq(GradeDicts), g \in GradeDicts] ==
    LET after == {i \in 1..Len(sorted) : sorted[i].rank > g.rank}
        pos == IF after = {} THEN Len(sorted) + 1
               ELSE CHOOSE i \in after : \A j \in after : i <= j
    IN SubSeq(sorted, 1, pos - 1) \o <<g>> \o SubSeq(sorted, pos, Len(sorted))
SortByRank[group \in Seq(GradeDicts)] ==
    IF group = << >> THEN << >>
    ELSE InsertByRank[SortByRank[SubSeq(group, 1, Len(group) - 1)], group[Len(group)]]
\* FirstMatchRank without the break of line 30: the last match's rank.
LastMatchRank(query_grades) ==
    LET hits == {i \in 1..Len(query_grades) : query_grades[i].is_match >= 1}
    IN IF hits = {} THEN None
       ELSE Some(query_grades[CHOOSE i \in hits : \A j \in hits : i >= j].rank)
\* first_match_rank (lines 26-30): the rank of the first grade of the sorted
\* group with is_match >= 1.0, or None.
FirstMatchRank(query_grades) ==
    LET hits == {i \in 1..Len(query_grades) : query_grades[i].is_match >= 1}
    IN IF hits = {} THEN None
       ELSE Some(query_grades[CHOOSE i \in hits : \A j \in hits : i <= j].rank)
\* PerQuery with `match = 1.0 if first_match_rank else 0.0`: a match at any
\* rank counts as a match at rank 1.
PerQueryMatchAnywhere(query_grades) ==
    LET first_match_rank == FirstMatchRank(query_grades)
        n_results == Len(query_grades)
        n_matches == Cardinality({i \in 1..n_results : query_grades[i].is_match >= 1})
    IN [match |-> IF first_match_rank # None /\ first_match_rank[1] # 0 THEN One ELSE Zero,
        recall_10 |-> IF first_match_rank # None /\ first_match_rank[1] # 0
                         /\ first_match_rank[1] <= 10 THEN One ELSE Zero,
        precision |-> IF n_results > 0 THEN FloatDiv[FloatOf(n_matches), n_results] ELSE Zero]
\* One entry of per_query (lines 32-40).
PerQuery(query_grades) ==
    LET first_match_rank == FirstMatchRank(query_grades)
        n_results == Len(query_grades)
        n_matches == Cardinality({i \in 1..n_results : query_grades[i].is_match >= 1})
    IN [match |-> IF first_match_rank = Some(1) THEN One ELSE Zero,
        recall_10 |-> IF first_match_rank # None /\ first_match_rank[1] # 0
                         /\ first_match_rank[1] <= 10 THEN One ELSE Zero,
        precision |-> IF n_results > 0 THEN FloatDiv[FloatOf(n_matches), n_results] ELSE Zero]
\* per_query (lines 24-40): one entry per key of by_query, in insertion order.
PerQueries[grades \in Seq(GradeDicts)] ==
    [i \in 1..Len(QueryOrder[grades]) |->
        PerQuery(SortByRank[GroupOf(grades, QueryOrder[grades][i])])]
\* The generator of one of sum's arguments (lines 47-49).
Column(per_query, field) == [i \in 1..Len(per_query) |-> per_query[i][field]]
RetrievalMetrics(match, recall_at_10, precision, num_queries) ==
    [match |-> match, recall_at_10 |-> recall_at_10, precision |-> precision,
     num_queries |-> num_queries]
\* compute_retrieval_metrics without the `n == 0` test of line 43: the
\* division of line 47 raises for an empty argument.
compute_without_empty_test(grades, impl) ==
    LET per_query == PerQueries[grades]
        n == Len(per_query)
    IN IF n = 0 THEN [fault |-> "ZeroDivisionError"]
       ELSE RetrievalMetrics(FloatDiv[sum(Column(per_query, "match"), impl), n],
                             FloatDiv[sum(Column(per_query, "recall_10"), impl), n],
                             FloatDiv[sum(Column(per_query, "precision"), impl), n], n)
\* compute_retrieval_metrics with precision pooled over all grades: every
\* query weighted by its number of results.
compute_pooled_precision(grades, impl) ==
    LET per_query == PerQueries[grades]
        n == Len(per_query)
        n_matches == Cardinality({i \in 1..Len(grades) : grades[i].is_match >= 1})
    IN IF n = 0 THEN RetrievalMetrics(Zero, Zero, Zero, 0)
       ELSE RetrievalMetrics(FloatDiv[sum(Column(per_query, "match"), impl), n],
                             FloatDiv[sum(Column(per_query, "recall_10"), impl), n],
                             FloatDiv[FloatOf(n_matches), Len(grades)], n)
\* compute_retrieval_metrics, run by an interpreter whose sum() is impl.
compute_retrieval_metrics(grades, impl) ==
    LET per_query == PerQueries[grades]
        n == Len(per_query)
    IN IF n = 0 THEN RetrievalMetrics(Zero, Zero, Zero, 0)
       ELSE RetrievalMetrics(FloatDiv[sum(Column(per_query, "match"), impl), n],
                             FloatDiv[sum(Column(per_query, "recall_10"), impl), n],
                             FloatDiv[sum(Column(per_query, "precision"), impl), n], n)

\* ------------------------------------------------------------- benchmark.py
\* load_queries: the dataset's lines, cut by `queries[:limit] if limit else
\* queries`; a missing file gives the empty list.
load_queries(file, limit) ==
    IF limit # None /\ limit[1] # 0
    THEN SubSeq(file, 1, IF limit[1] < Len(file) THEN limit[1] ELSE Len(file))
    ELSE file

\* The urls enrich_results asks for: [r.url for r in results if r.url].
FetchUrls(results) == {results[i].url : i \in {j \in 1..Len(results) : results[j].url # ""}}
\* dict.get(key, default)
Get(dict, key, default) == IF key \in DOMAIN dict THEN dict[key] ELSE default
\* enrich_results with an except branch that loses the first result.
EnrichResultsDropping(results, fetched) ==
    IF fetched.raised THEN Tail(results)
    ELSE [i \in 1..Len(results) |->
            SearchResult(results[i].url, results[i].title,
                         Get(fetched.contents, results[i].url, results[i].text),
                         results[i].metadata)]
\* enrich_results with contents.get(r.url, ""): a result without fetched
\* content loses its text.
EnrichResultsDefaultEmpty(results, fetched) ==
    IF fetched.raised THEN results
    ELSE [i \in 1..Len(results) |->
            SearchResult(results[i].url, results[i].title,
                         Get(fetched.contents, results[i].url, <<"", "">>),
                         results[i].metadata)]
\* enrich_results once the fetch has answered: fetched.raised is the except
\* branch, else every result is rebuilt with contents.get(r.url, r.text).
enrich_results(results, fetched) ==
    IF fetched.raised THEN results
    ELSE [i \in 1..Len(results) |->
            SearchResult(results[i].url, results[i].title,
                         Get(fetched.contents, results[i].url, results[i].text),
                         results[i].metadata)]

\* PeopleGrader.grade with an except branch that scores a match.
PeopleGraderFaultMatches(judgment) ==
    IF judgment.kind = "parsed"
    THEN [is_match |-> IF judgment.score >= 5 THEN 1 ELSE 0]
    ELSE [is_match |-> 1]
\* PeopleGrader.grade: is_match of the GradeResult it returns.  A parsed
\* judgment scores 1.0 when score >= 0.5; parsed None fails the assert, and
\* every exception of the try block gives 0.0.
PeopleGrader_grade(judgment) ==
    IF judgment.kind = "parsed"
    THEN [is_match |-> IF judgment.score >= 5 THEN 1 ELSE 0]
    ELSE [is_match |-> 0]
\* The dict grade_one returns.
grade_one(query_id, rank, g) ==
    [query_id |-> query_id, rank |-> rank, is_match |-> Get(g, "is_match", 0)]
\* GradeTasks with enumerate(results): ranks from 0.
GradeTasksFromZero(results) ==
    [i \in 1..Len(results) |-> [pc |-> "wait", rank |-> i - 1, is_match |-> 0, fault |-> FALSE]]
\* The grade_one tasks _grade creates: enumerate(results, 1).
GradeTasks(results) ==
    [i \in 1..Len(results) |-> [pc |-> "wait", rank |-> i, is_match |-> 0, fault |-> FALSE]]

VARIABLES
    config,           \* BenchmarkConfig handed to run: limit, enrich_exa_contents
    dataset,          \* the queries load_queries read from the file
    run_pc,           \* Benchmark.run: "start", "running", "returned", "raised"
    queries,          \* run's local `queries` (query ids)
    unit,             \* process(q) of each searcher: its position
    found,            \* what searcher.search returned to process(q)
    results,          \* process(q)'s local `results`
    fetch,            \* process(q): how its content fetch ended
    tasks,            \* the grade_one tasks of process(q)
    grades,           \* _run_searcher's local `grades` of each searcher
    advanced,         \* progress.advance calls per searcher task
    semaphore,        \* value of _run_searcher's semaphore of each searcher
    grade_semaphore,  \* value of Benchmark._grade_semaphore
    report,           \* what run returned
    saved,            \* the output file has been written
    client,           \* each searcher's httpx.AsyncClient
    call,             \* a direct call of a function of the program: its arguments
    returned          \* what that call returned

vars == <<config, dataset, run_pc, queries, unit, found, results, fetch, tasks, grades,
          advanced, semaphore, grade_semaphore, report, saved, client, call, returned>>

Configs == [limit : Limits, enrich_exa_contents : BOOLEAN]

\* No function is called directly: the program is run through main.
NoCall == [fn |-> "none", grades |-> << >>, results |-> << >>, fetched |-> << >>]
NotReturned == [done |-> FALSE, impl |-> "none", value |-> << >>]

\* Benchmark(searchers) is constructed and run has not been called.
Constructed ==
    /\ dataset = << >>
    /\ run_pc = "start"
    /\ queries = << >>
    /\ unit = [s \in Searchers |-> [q \in QueryIds |-> "none"]]
    /\ found = [s \in Searchers |-> [q \in QueryIds |-> << >>]]
    /\ results = [s \in Searchers |-> [q \in QueryIds |-> << >>]]
    /\ fetch = [s \in Searchers |-> [q \in QueryIds |-> "none"]]
    /\ tasks = [s \in Searchers |-> [q \in QueryIds |-> << >>]]
    /\ grades = [s \in Searchers |-> << >>]
    /\ advanced = [s \in Searchers |-> 0]
    /\ semaphore = [s \in Searchers |-> QueryConcurrency]
    /\ grade_semaphore = GradingConcurrency
    /\ report = << >>
    /\ saved = FALSE
    /\ client = [s \in Searchers |-> "open"]

Init ==
    /\ config \in Configs
    /\ call = NoCall
    /\ returned = NotReturned
    /\ Constructed

InQueries(q) == \E i \in 1..Len(queries) : queries[i] = q

\* run, lines 129-157: load the queries (the file holds n lines); return {}
\* when there are none, else start one run_one task per searcher, each
\* starting one process task per query.
RunStart(n) ==
    /\ run_pc = "start"
    /\ dataset' = Dataset(n)
    /\ LET qs == load_queries(Dataset(n), config.limit)
       IN /\ queries' = qs
          /\ IF qs = << >>
             THEN /\ run_pc' = "returned"
                  /\ report' = << >>
                  /\ UNCHANGED unit
             ELSE /\ run_pc' = "running"
                  /\ unit' = [s \in Searchers |-> [q \in QueryIds |->
                                IF \E i \in 1..Len(qs) : qs[i] = q THEN "pending" ELSE "none"]]
                  /\ UNCHANGED report
    /\ UNCHANGED <<call, returned, config, found, results, fetch, tasks, grades, advanced, semaphore,
                   grade_semaphore, saved, client>>

\* The process tasks of a searcher reach the semaphore in the order gather
\* started them, and asyncio.Semaphore wakes its waiters first come, first
\* served.
Earlier(q) == {p \in QueryIds : \E i, j \in 1..Len(queries) : queries[i] = p /\ queries[j] = q /\ i < j}

\* Acquire without the semaphore's wait: `async with semaphore` left out.
AcquireUnbounded(s, q) ==
    /\ run_pc = "running"
    /\ unit[s][q] = "pending"
    /\ semaphore' = [semaphore EXCEPT ![s] = @ - 1]
    /\ unit' = [unit EXCEPT ![s][q] = "search"]
    /\ UNCHANGED <<call, returned, config, dataset, run_pc, queries, found, results, fetch, tasks, grades,
                   advanced, grade_semaphore, report, saved, client>>

\* process, lines 119-120: enter the semaphore and start the search call.
Acquire(s, q) ==
    /\ run_pc = "running"
    /\ unit[s][q] = "pending"
    /\ \A p \in Earlier(q) : unit[s][p] # "pending"
    /\ semaphore[s] > 0
    /\ semaphore' = [semaphore EXCEPT ![s] = @ - 1]
    /\ unit' = [unit EXCEPT ![s][q] = "search"]
    /\ UNCHANGED <<call, returned, config, dataset, run_pc, queries, found, results, fetch, tasks, grades,
                   advanced, grade_semaphore, report, saved, client>>

\* Grade recording a miss for a query without results: an empty result list
\* extends grades by one non-matching grade.
GradeCountingEmpty(s, q, rs, fetched) ==
    IF rs = << >>
    THEN /\ unit' = [unit EXCEPT ![s][q] = "done"]
         /\ advanced' = [advanced EXCEPT ![s] = @ + 1]
         /\ semaphore' = [semaphore EXCEPT ![s] = @ + 1]
         /\ grades' = [grades EXCEPT ![s] = Append(@, [query_id |-> q, rank |-> 1, is_match |-> 0])]
         /\ UNCHANGED <<results, fetch, tasks>>
    ELSE /\ unit' = [unit EXCEPT ![s][q] = "grade"]
         /\ results' = [results EXCEPT ![s][q] = rs]
         /\ fetch' = [fetch EXCEPT ![s][q] = fetched]
         /\ tasks' = [tasks EXCEPT ![s][q] = GradeTasks(rs)]
         /\ UNCHANGED <<advanced, semaphore, grades>>

\* process, lines 123-124 and _grade, line 105, entered with the final
\* `results`: one grade_one task per result.  gather() of no task is done at
\* once, so an empty result list extends grades by nothing, advances the
\* progress and leaves the semaphore without suspending.
Grade(s, q, rs, fetched) ==
    IF rs = << >>
    THEN /\ unit' = [unit EXCEPT ![s][q] = "done"]
         /\ advanced' = [advanced EXCEPT ![s] = @ + 1]
         /\ semaphore' = [semaphore EXCEPT ![s] = @ + 1]
         /\ UNCHANGED <<results, fetch, tasks, grades>>
    ELSE /\ unit' = [unit EXCEPT ![s][q] = "grade"]
         /\ results' = [results EXCEPT ![s][q] = rs]
         /\ fetch' = [fetch EXCEPT ![s][q] = fetched]
         /\ tasks' = [tasks EXCEPT ![s][q] = GradeTasks(rs)]
         /\ UNCHANGED <<advanced, semaphore, grades>>

\* process, lines 120-122: the search call returns k results.  With
\* enrichment on, fetch_exa_contents posts the urls unless there is no api
\* key or no url, when it returns {} at once.
SearchReturn(s, q, k, api_key) ==
    /\ run_pc = "running"
    /\ unit[s][q] = "search"
    /\ LET rs == SearchResponse(k)
       IN /\ found' = [found EXCEPT ![s][q] = rs]
          /\ IF config.enrich_exa_contents /\ api_key /\ FetchUrls(rs) # {}
             THEN /\ unit' = [unit EXCEPT ![s][q] = "enrich"]
                  /\ results' = [results EXCEPT ![s][q] = rs]
                  /\ UNCHANGED <<fetch, tasks, grades, advanced, semaphore>>
             ELSE IF config.enrich_exa_contents
                  THEN Grade(s, q, enrich_results(rs, [raised |-> FALSE, contents |-> << >>]),
                             "answered")
                  ELSE Grade(s, q, rs, "none")
    /\ UNCHANGED <<call, returned, config, dataset, run_pc, queries, grade_semaphore, report, saved, client>>

\* process, line 120: the search call raises; the exception leaves the
\* `async with` (releasing the semaphore) and ends the process task.
SearchRaises(s, q) ==
    /\ run_pc = "running"
    /\ unit[s][q] = "search"
    /\ unit' = [unit EXCEPT ![s][q] = "raised"]
    /\ semaphore' = [semaphore EXCEPT ![s] = @ + 1]
    /\ UNCHANGED <<call, returned, config, dataset, run_pc, queries, found, results, fetch, tasks, grades,
                   advanced, grade_semaphore, report, saved, client>>

\* What the content fetch of a unit can end with.
FetchOutcomes(s, q) ==
    {[raised |-> TRUE, contents |-> << >>]}
    \cup {[raised |-> FALSE, contents |-> c] : c \in FetchResponses(FetchUrls(results[s][q]))}

\* enrich_results, lines 84-90: the content fetch answers or raises.
EnrichReturn(s, q, fetched) ==
    /\ run_pc = "running"
    /\ unit[s][q] = "enrich"
    /\ Grade(s, q, enrich_results(results[s][q], fetched),
             IF fetched.raised THEN "raised" ELSE "answered")
    /\ UNCHANGED <<call, returned, config, dataset, run_pc, queries, found, grade_semaphore, report, saved,
                   client>>

\* GradeAcquire with a grading semaphore of each searcher's own: the wait
\* looks only at the calls of searcher s.
GradeAcquirePerSearcher(s, q, i) ==
    /\ run_pc = "running"
    /\ unit[s][q] = "grade"
    /\ tasks[s][q][i].pc = "wait"
    /\ \A j \in 1..(i - 1) : tasks[s][q][j].pc # "wait"
    /\ Cardinality({u \in QueryIds \X (1..MaxResults) :
                       /\ u[2] <= Len(tasks[s][u[1]])
                       /\ tasks[s][u[1]][u[2]].pc = "call"}) < GradingConcurrency
    /\ grade_semaphore' = grade_semaphore - 1
    /\ tasks' = [tasks EXCEPT ![s][q][i].pc = "call"]
    /\ UNCHANGED <<call, returned, config, dataset, run_pc, queries, unit, found, results, fetch, grades,
                   advanced, semaphore, report, saved, client>>

\* grade_one, lines 101-102: enter the grading semaphore and call the grader.
\* The grade_one tasks of one query reach the semaphore in rank order.
GradeAcquire(s, q, i) ==
    /\ run_pc = "running"
    /\ unit[s][q] = "grade"
    /\ tasks[s][q][i].pc = "wait"
    /\ \A j \in 1..(i - 1) : tasks[s][q][j].pc # "wait"
    /\ grade_semaphore > 0
    /\ grade_semaphore' = grade_semaphore - 1
    /\ tasks' = [tasks EXCEPT ![s][q][i].pc = "call"]
    /\ UNCHANGED <<call, returned, config, dataset, run_pc, queries, unit, found, results, fetch, grades,
                   advanced, semaphore, report, saved, client>>

\* grade_one, lines 102-103: the grader returns; leave the grading semaphore
\* and build the grade of this rank.
GradeReturn(s, q, i, judgment) ==
    /\ run_pc = "running"
    /\ unit[s][q] = "grade"
    /\ tasks[s][q][i].pc = "call"
    /\ grade_semaphore' = grade_semaphore + 1
    /\ LET g == grade_one(q, tasks[s][q][i].rank, PeopleGrader_grade(judgment))
       IN tasks' = [tasks EXCEPT ![s][q][i] =
                       [pc |-> "done", rank |-> g.rank, is_match |-> g.is_match,
                        fault |-> judgment.kind # "parsed"]]
    /\ UNCHANGED <<call, returned, config, dataset, run_pc, queries, unit, found, results, fetch, grades,
                   advanced, semaphore, report, saved, client>>

\* The list gather hands back to line 123: the tasks' grades in task order.
Gathered(s, q) ==
    [i \in 1..Len(tasks[s][q]) |->
        [query_id |-> q, rank |-> tasks[s][q][i].rank, is_match |-> tasks[s][q][i].is_match]]

\* Collect that keeps the semaphore's permit: the `async with` never exits.
CollectKeepingPermit(s, q) ==
    /\ run_pc = "running"
    /\ unit[s][q] = "grade"
    /\ \A i \in 1..Len(tasks[s][q]) : tasks[s][q][i].pc = "done"
    /\ grades' = [grades EXCEPT ![s] = @ \o Gathered(s, q)]
    /\ advanced' = [advanced EXCEPT ![s] = @ + 1]
    /\ unit' = [unit EXCEPT ![s][q] = "done"]
    /\ tasks' = [tasks EXCEPT ![s][q] = << >>]
    /\ results' = [results EXCEPT ![s][q] = << >>]
    /\ fetch' = [fetch EXCEPT ![s][q] = "none"]
    /\ UNCHANGED <<call, returned, config, dataset, run_pc, queries, found, semaphore, grade_semaphore, report,
                   saved, client>>

\* Collect with `grades = await self._grade(q, results)`: the list is
\* replaced, not extended.
CollectOverwriting(s, q) ==
    /\ run_pc = "running"
    /\ unit[s][q] = "grade"
    /\ \A i \in 1..Len(tasks[s][q]) : tasks[s][q][i].pc = "done"
    /\ grades' = [grades EXCEPT ![s] = Gathered(s, q)]
    /\ advanced' = [advanced EXCEPT ![s] = @ + 1]
    /\ semaphore' = [semaphore EXCEPT ![s] = @ + 1]
    /\ unit' = [unit EXCEPT ![s][q] = "done"]
    /\ tasks' = [tasks EXCEPT ![s][q] = << >>]
    /\ results' = [results EXCEPT ![s][q] = << >>]
    /\ fetch' = [fetch EXCEPT ![s][q] = "none"]
    /\ UNCHANGED <<call, returned, config, dataset, run_pc, queries, found, grade_semaphore, report, saved,
                   client>>

\* process, lines 123-124: every grade_one task is done; extend grades,
\* advance the progress, leave the semaphore.  The locals of the unit end.
Collect(s, q) ==
    /\ run_pc = "running"
    /\ unit[s][q] = "grade"
    /\ \A i \in 1..Len(tasks[s][q]) : tasks[s][q][i].pc = "done"
    /\ grades' = [grades EXCEPT ![s] = @ \o Gathered(s, q)]
    /\ advanced' = [advanced EXCEPT ![s] = @ + 1]
    /\ semaphore' = [semaphore EXCEPT ![s] = @ + 1]
    /\ unit' = [unit EXCEPT ![s][q] = "done"]
    /\ tasks' = [tasks EXCEPT ![s][q] = << >>]
    /\ results' = [results EXCEPT ![s][q] = << >>]
    /\ fetch' = [fetch EXCEPT ![s][q] = "none"]
    /\ UNCHANGED <<call, returned, config, dataset, run_pc, queries, found, grade_semaphore, report, saved,
                   client>>

\* BuildReport without the `if grades:` test of line 168: every searcher gets
\* an entry.
BuildReportAllSearchers(impl) ==
    [config |-> [limit |-> config.limit],
     searchers |-> [s \in Searchers |-> [metrics |-> compute_retrieval_metrics(grades[s], impl)]]]
\* run, lines 144 and 167-171: the report built from all_grades.
BuildReport(impl) ==
    [config |-> [limit |-> config.limit],
     searchers |-> [s \in {t \in Searchers : grades[t] # << >>} |->
                      [metrics |-> compute_retrieval_metrics(grades[s], impl)]]]

\* run, lines 165-180: every process task of every searcher is done; build
\* the report, write the output file if config.output_file is set, return.
\* impl is the sum() of the interpreter that runs the program.
Finish(output_file, impl) ==
    /\ run_pc = "running"
    /\ \A s \in Searchers : \A q \in QueryIds : InQueries(q) => unit[s][q] = "done"
    /\ report' = BuildReport(impl)
    /\ saved' = output_file
    /\ run_pc' = "returned"
    /\ UNCHANGED <<call, returned, config, dataset, queries, unit, found, results, fetch, tasks, grades,
                   advanced, semaphore, grade_semaphore, client>>

\* Permits held by the tasks that a cancellation ends.
HeldBy(s) == Cardinality({q \in QueryIds : unit[s][q] \in {"search", "enrich", "grade"}})
InGrader(s, q) == {i \in 1..Len(tasks[s][q]) : tasks[s][q][i].pc = "call"}
RECURSIVE SumOver(_, _)
SumOver(f, dom) ==
    IF dom = {} THEN 0
    ELSE LET x == CHOOSE y \in dom : TRUE IN f[x] + SumOver(f, dom \ {x})
GradingInFlight ==
    SumOver([u \in Searchers \X QueryIds |-> Cardinality(InGrader(u[1], u[2]))],
            Searchers \X QueryIds)

\* A process task has raised: gather (lines 126 and 165) passes the first
\* exception up and run raises it; asyncio.run (line 263) then cancels the
\* tasks still pending, whose `async with` blocks release their permits.
RunRaises ==
    /\ run_pc = "running"
    /\ \E s \in Searchers : \E q \in QueryIds : unit[s][q] = "raised"
    /\ run_pc' = "raised"
    /\ unit' = [s \in Searchers |-> [q \in QueryIds |->
                  IF unit[s][q] \in {"pending", "search", "enrich", "grade"}
                  THEN "cancelled" ELSE unit[s][q]]]
    /\ semaphore' = [s \in Searchers |-> semaphore[s] + HeldBy(s)]
    /\ grade_semaphore' = grade_semaphore + GradingInFlight
    /\ tasks' = [s \in Searchers |-> [q \in QueryIds |-> << >>]]
    /\ results' = [s \in Searchers |-> [q \in QueryIds |-> << >>]]
    /\ fetch' = [s \in Searchers |-> [q \in QueryIds |-> "none"]]
    /\ UNCHANGED <<call, returned, config, dataset, queries, found, grades, advanced, report, saved, client>>

Next ==
    \/ \E n \in 0..MaxQueries : RunStart(n)
    \/ \E s \in Searchers, q \in QueryIds : Acquire(s, q)
    \/ \E s \in Searchers, q \in QueryIds, k \in 0..MaxResults, api_key \in BOOLEAN :
          SearchReturn(s, q, k, api_key)
    \/ \E s \in Searchers, q \in QueryIds : SearchRaises(s, q)
    \/ \E s \in Searchers, q \in QueryIds : \E fetched \in FetchOutcomes(s, q) :
          EnrichReturn(s, q, fetched)
    \/ \E s \in Searchers, q \in QueryIds : \E i \in 1..Len(tasks[s][q]) : GradeAcquire(s, q, i)
    \/ \E s \in Searchers, q \in QueryIds : \E i \in 1..Len(tasks[s][q]) :
          \E judgment \in Judgments : GradeReturn(s, q, i, judgment)
    \/ \E s \in Searchers, q \in QueryIds : Collect(s, q)
    \/ \E output_file \in BOOLEAN, impl \in SumImpls : Finish(output_file, impl)
    \/ RunRaises

Spec == Init /\ [][Next]_vars

\* Scheduling: the event loop runs every task that is ready, and every
\* external call (search, content fetch, grading) returns or raises in the
\* end.
Fairness ==
    /\ WF_vars(\E n \in 0..MaxQueries : RunStart(n))
    /\ \A s \in Searchers, q \in QueryIds :
          /\ WF_vars(Acquire(s, q))
          /\ WF_vars(\/ SearchRaises(s, q)
                     \/ \E k \in 0..MaxResults, api_key \in BOOLEAN : SearchReturn(s, q, k, api_key))
          /\ WF_vars(\E fetched \in FetchOutcomes(s, q) : EnrichReturn(s, q, fetched))
          /\ WF_vars(\E i \in 1..Len(tasks[s][q]) : GradeAcquire(s, q, i))
          /\ WF_vars(\E i \in 1..Len(tasks[s][q]) : \E judgment \in Judgments :
                        GradeReturn(s, q, i, judgment))
          /\ WF_vars(Collect(s, q))
    /\ WF_vars(\/ RunRaises
               \/ \E output_file \in BOOLEAN, impl \in SumImpls : Finish(output_file, impl))
\* The runs whose every behaviour is followed to its end: one query with
\* enrichment on or off, or the whole dataset with enrichment off.
LiveInit == Init /\ (config.limit = Some(1) \/ ~config.enrich_exa_contents)
FairSpec == LiveInit /\ [][Next]_vars /\ Fairness

\* ------------------------------------------------------- runs without waiting
\* _run_searcher's semaphore has 20 permits (line 116): with fewer queries
\* than permits no process task waits and all of them are in flight together.
\* WideConcurrency permits for MaxQueries queries give these runs.  The runs
\* followed are those of the whole dataset, without enrichment, in which
\* every search call returns.
WideConcurrency == 2
WideInit ==
    /\ config = [limit |-> None, enrich_exa_contents |-> FALSE]
    /\ call = NoCall
    /\ returned = NotReturned
    /\ dataset = << >>
    /\ run_pc = "start"
    /\ queries = << >>
    /\ unit = [s \in Searchers |-> [q \in QueryIds |-> "none"]]
    /\ found = [s \in Searchers |-> [q \in QueryIds |-> << >>]]
    /\ results = [s \in Searchers |-> [q \in QueryIds |-> << >>]]
    /\ fetch = [s \in Searchers |-> [q \in QueryIds |-> "none"]]
    /\ tasks = [s \in Searchers |-> [q \in QueryIds |-> << >>]]
    /\ grades = [s \in Searchers |-> << >>]
    /\ advanced = [s \in Searchers |-> 0]
    /\ semaphore = [s \in Searchers |-> WideConcurrency]
    /\ grade_semaphore = GradingConcurrency
    /\ report = << >>
    /\ saved = FALSE
    /\ client = [s \in Searchers |-> "open"]
WideNext ==
    \/ \E n \in 0..MaxQueries : RunStart(n)
    \/ \E s \in Searchers, q \in QueryIds : Acquire(s, q)
    \/ \E s \in Searchers, q \in QueryIds, k \in 0..MaxResults : SearchReturn(s, q, k, TRUE)
    \/ \E s \in Searchers, q \in QueryIds : \E i \in 1..Len(tasks[s][q]) : GradeAcquire(s, q, i)
    \/ \E s \in Searchers, q \in QueryIds : \E i \in 1..Len(tasks[s][q]) :
          \E judgment \in Judgments : GradeReturn(s, q, i, judgment)
    \/ \E s \in Searchers, q \in QueryIds : Collect(s, q)
    \/ \E output_file \in BOOLEAN, impl \in SumImpls : Finish(output_file, impl)
WideSpec == WideInit /\ [][WideNext]_vars

\* ---------------------------------------------------------- runs of any limit
\* --limit is parsed with type=int (main, line 237): every integer can be
\* given, 0 and values above the dataset's size too.  The runs followed are
\* those without enrichment in which every search call returns.
MaxLimit == 3
AnyLimits == {None} \cup {Some(l) : l \in 0..MaxLimit}
LimitInit ==
    /\ config \in [limit : AnyLimits, enrich_exa_contents : {FALSE}]
    /\ call = NoCall
    /\ returned = NotReturned
    /\ Constructed
LimitSpec == LimitInit /\ [][WideNext]_vars

\* --------------------------------------------------------------- direct calls
\* compute_retrieval_metrics and enrich_results are module-level functions:
\* here each is called on its own, with arguments drawn from bounded sets.
\* Longest grade list.
MaxGrades == 5
\* The grade dicts of an argument list: query 1 with up to three results,
\* each matching or not; queries 2 and 3 with a match at rank 1; query 2 also
\* with matches on both sides of the recall bound of line 36.
GradePool ==
    {[query_id |-> 1, rank |-> r, is_match |-> m] : r \in 1..3, m \in {0, 1}}
    \cup {[query_id |-> q, rank |-> 1, is_match |-> 1] : q \in 2..3}
    \cup {[query_id |-> 2, rank |-> r, is_match |-> 1] : r \in 10..11}
\* The argument lists: at most one grade per query and rank.
GradeLists ==
    {g \in UNION {[1..n -> GradePool] : n \in 0..MaxGrades} :
        \A i, j \in 1..Len(g) :
            (g[i].query_id = g[j].query_id /\ g[i].rank = g[j].rank) => i = j}
\* Longest result list handed to enrich_results.
MaxEnriched == 3
ResultPool == {Hit(i) : i \in 1..3}
ResultLists == UNION {[1..n -> ResultPool] : n \in 0..MaxEnriched}
\* How fetch_exa_contents ended: with a mapping whose keys are non-empty urls
\* (line 79), urls of the results or not, or with an exception.
FetchedUrls == {"u1", "u3", "u9"}
Fetched ==
    {[raised |-> TRUE, contents |-> << >>]}
    \cup {[raised |-> FALSE, contents |-> [u \in ok |-> Page(u)]] : ok \in SUBSET FetchedUrls}
MetricsCalls ==
    {[fn |-> "compute_retrieval_metrics", grades |-> g, results |-> << >>, fetched |-> << >>] :
        g \in GradeLists}
EnrichCalls ==
    {[fn |-> "enrich_results", grades |-> << >>, results |-> rs, fetched |-> f] :
        rs \in ResultLists, f \in Fetched}
run_vars == <<config, dataset, run_pc, queries, unit, found, results, fetch, tasks, grades,
              advanced, semaphore, grade_semaphore, report, saved, client>>

MetricsInit ==
    /\ config = [limit |-> None, enrich_exa_contents |-> FALSE]
    /\ call \in MetricsCalls
    /\ returned = NotReturned
    /\ Constructed
\* compute_retrieval_metrics(call.grades) returns, run by an interpreter
\* whose sum() is impl.
CallMetrics(impl) ==
    /\ call.fn = "compute_retrieval_metrics"
    /\ ~returned.done
    /\ returned' = [done |-> TRUE, impl |-> impl,
                    value |-> compute_retrieval_metrics(call.grades, impl)]
    /\ UNCHANGED <<call, run_vars>>
MetricsNext == \E impl \in SumImpls : CallMetrics(impl)
MetricsSpec == MetricsInit /\ [][MetricsNext]_vars

EnrichInit ==
    /\ config = [limit |-> None, enrich_exa_contents |-> TRUE]
    /\ call \in EnrichCalls
    /\ returned = NotReturned
    /\ Constructed
\* enrich_results(call.results) returns, its content fetch having ended as
\* call.fetched.
CallEnrich ==
    /\ call.fn = "enrich_results"
    /\ ~returned.done
    /\ returned' = [done |-> TRUE, impl |-> "none",
                    value |-> enrich_results(call.results, call.fetched)]
    /\ UNCHANGED <<call, run_vars>>
EnrichNext == CallEnrich
EnrichSpec == EnrichInit /\ [][EnrichNext]_vars

\* ------------------------------------------------------------------ claims
Ended == run_pc \in {"returned", "raised"}
Units == {u \in Searchers \X QueryIds : InQueries(u[2])}
\* The grades of query q in searcher s's grade list, in list order.
QueryGrades(s, q) == SelectSeq(grades[s], LAMBDA g : g.query_id = q)
\* Queries of searcher s in flight: inside `async with semaphore`.
InFlight(s) == {q \in QueryIds : unit[s][q] \in {"search", "enrich", "grade"}}
Reported == IF "searchers" \in DOMAIN report THEN DOMAIN report["searchers"] ELSE {}

\* C1: when a search call has faulted for some (searcher, query), the run
\* still ends by returning a report; the faulted query has no grade of that
\* searcher, and every other unit has finished and handed in its grades.
C1_SearchFaultIsolated ==
    (Ended /\ \E u \in Units : unit[u[1]][u[2]] = "raised") =>
        /\ run_pc = "returned"
        /\ "searchers" \in DOMAIN report
        /\ \A u \in Units :
              IF unit[u[1]][u[2]] = "raised"
              THEN QueryGrades(u[1], u[2]) = << >>
              ELSE /\ unit[u[1]][u[2]] = "done"
                   /\ Len(QueryGrades(u[1], u[2])) = Len(found[u[1]][u[2]])

\* C2: when the run has ended and every search call of one searcher has
\* faulted, the run has returned a report that leaves that searcher out and
\* holds every searcher that produced grades.
C2_AllFaultsOmitted ==
    \A s \in Searchers :
        (Ended /\ queries # << >> /\ \A q \in QueryIds : InQueries(q) => unit[s][q] = "raised") =>
            /\ run_pc = "returned"
            /\ s \notin Reported
            /\ \A t \in Searchers : grades[t] # << >> => t \in Reported

\* C3: at every instant, each searcher has at most as many queries in flight
\* (search started, unit not finished) as its semaphore has permits.
C3_QueriesInFlightBounded ==
    \A s \in Searchers : Cardinality(InFlight(s)) <= QueryConcurrency
\* The bound is met while another query of the searcher waits.
C3_Witness ==
    \E s \in Searchers :
        /\ Cardinality(InFlight(s)) = QueryConcurrency
        /\ \E q \in QueryIds : unit[s][q] = "pending"

\* C4: at every instant, the grader calls in flight, summed over all
\* searchers and queries, are at most the grading concurrency.
C4_GradingInFlightBounded == GradingInFlight <= GradingConcurrency
\* The bound is met by calls of two searchers while a third call waits.
C4_Witness ==
    /\ GradingInFlight = GradingConcurrency
    /\ \A s \in Searchers : \E q \in QueryIds : InGrader(s, q) # {}
    /\ \E s \in Searchers, q \in QueryIds : \E i \in 1..Len(tasks[s][q]) :
          tasks[s][q][i].pc = "wait"

\* C5: a result whose grading call faulted (an exception, an unparseable
\* judgment) has a grade with is_match 0 at its own rank; the unit goes on
\* with one grade_one task per result, and once the unit is done the query
\* has exactly one grade per result the search returned.
C5_GradingFaultIsNonMatch ==
    \A u \in Units :
        LET s == u[1]
            q == u[2]
        IN /\ unit[s][q] = "grade" =>
                /\ Len(tasks[s][q]) = Len(results[s][q])
                /\ \A i \in 1..Len(tasks[s][q]) :
                      tasks[s][q][i].fault =>
                          /\ tasks[s][q][i].pc = "done"
                          /\ tasks[s][q][i].is_match = 0
                          /\ tasks[s][q][i].rank = i
           /\ unit[s][q] = "done" => Len(QueryGrades(s, q)) = Len(found[s][q])
\* The first result's grading faulted and the second result was graded a
\* match.
C5_Witness ==
    \E u \in Units :
        /\ unit[u[1]][u[2]] = "grade"
        /\ Len(tasks[u[1]][u[2]]) >= 2
        /\ tasks[u[1]][u[2]][1].fault
        /\ tasks[u[1]][u[2]][2].pc = "done"
        /\ tasks[u[1]][u[2]][2].is_match = 1

\* C6: when the content fetch of a unit raised, the unit's results are the
\* list the search returned, unchanged, and the unit is grading them: one
\* grade_one task per returned result, in the returned order.
C6_EnrichFaultKeepsResults ==
    \A u \in Units :
        LET s == u[1]
            q == u[2]
        IN fetch[s][q] = "raised" =>
              /\ config.enrich_exa_contents
              /\ unit[s][q] = "grade"
              /\ results[s][q] = found[s][q]
              /\ Len(tasks[s][q]) = Len(found[s][q])
              /\ \A i \in 1..Len(tasks[s][q]) : tasks[s][q][i].rank = i
\* A fetch raised for a full result list, and every result has been graded.
C6_Witness ==
    \E u \in Units :
        /\ fetch[u[1]][u[2]] = "raised"
        /\ Len(found[u[1]][u[2]]) = MaxResults
        /\ \A i \in 1..Len(tasks[u[1]][u[2]]) : tasks[u[1]][u[2]][i].pc = "done"

\* C7: the grade_one task of the i-th result carries rank i, and the grades a
\* finished unit handed in for its query carry the ranks 1..k in this order,
\* k being the number of results the search returned.
C7_RanksAreResultPositions ==
    \A u \in Units :
        LET s == u[1]
            q == u[2]
            handed == QueryGrades(s, q)
        IN /\ unit[s][q] = "grade" =>
                /\ Len(tasks[s][q]) = Len(found[s][q])
                /\ \A i \in 1..Len(tasks[s][q]) : tasks[s][q][i].rank = i
           /\ unit[s][q] = "done" =>
                [i \in 1..Len(handed) |-> handed[i].rank] = [i \in 1..Len(found[s][q]) |-> i]
\* One unit has handed in a full list of grades while, in another unit, the
\* second result's grading has finished before the first's.
C7_Witness ==
    /\ \E u \in Units :
          /\ unit[u[1]][u[2]] = "done"
          /\ Len(QueryGrades(u[1], u[2])) = MaxResults
          /\ MaxResults >= 2
    /\ \E u \in Units :
          /\ unit[u[1]][u[2]] = "grade"
          /\ Len(tasks[u[1]][u[2]]) >= 2
          /\ tasks[u[1]][u[2]][1].pc = "call"
          /\ tasks[u[1]][u[2]][2].pc = "done"

\* C8: a run over an empty query list has returned a report whose
\* `searchers` mapping is empty, without starting any unit, grading anything,
\* advancing any progress or writing the output file.
C8_EmptyRunReport ==
    (run_pc = "returned" /\ queries = << >>) =>
        /\ "searchers" \in DOMAIN report
        /\ Reported = {}
        /\ \A s \in Searchers : \A q \in QueryIds : unit[s][q] = "none" /\ tasks[s][q] = << >>
        /\ \A s \in Searchers : grades[s] = << >> /\ advanced[s] = 0
        /\ ~saved

\* C9: progress is advanced once per finished unit, and when the run has
\* ended every searcher's progress count is the number of queries.
C9_ProgressComplete ==
    /\ \A s \in Searchers : advanced[s] = Cardinality({q \in QueryIds : unit[s][q] = "done"})
    /\ Ended => \A s \in Searchers : advanced[s] = Len(queries)

\* C10: when the run has ended, normally or by a fault, the HTTP client of
\* every searcher has been closed.
C10_ClientsClosed ==
    Ended => \A s \in Searchers : client[s] = "closed"
\* C11: under fair scheduling, with every external call returning or raising,
\* every run ends (it returns or raises), and when it has ended every permit
\* of every searcher's semaphore and of the grading semaphore is back.
C11_RunCompletes ==
    <>(/\ Ended
       /\ grade_semaphore = GradingConcurrency
       /\ \A s \in Searchers : semaphore[s] = QueryConcurrency)
\* A unit holds its searcher's only slot and waits for a grading permit
\* while none is free, and another query of the searcher waits for the slot.
C11_Witness ==
    \E s \in Searchers, q \in QueryIds :
        /\ unit[s][q] = "grade"
        /\ \E i \in 1..Len(tasks[s][q]) : tasks[s][q][i].pc = "wait"
        /\ grade_semaphore = 0
        /\ semaphore[s] = 0
        /\ \E p \in QueryIds : unit[s][p] = "pending"
\* C12: in the report of a run over a non-empty query list, the keys of
\* `searchers` are exactly the searchers that produced at least one grade (a
\* searcher without grades is absent); every reported searcher's units are
\* all done, and its metrics are those of its whole grade list: one grade per
\* result its searches returned, num_queries counting its queries with grades.
C12_ReportedIffGraded ==
    (run_pc = "returned" /\ queries # << >>) =>
        /\ "searchers" \in DOMAIN report
        /\ Reported = {s \in Searchers : grades[s] # << >>}
        /\ \A s \in Reported :
              /\ \A q \in QueryIds : InQueries(q) => unit[s][q] = "done"
              /\ Len(grades[s]) = SumOver([q \in QueryIds |-> Len(found[s][q])], QueryIds)
              /\ \E impl \in SumImpls :
                    report["searchers"][s]["metrics"] = compute_retrieval_metrics(grades[s], impl)
              /\ report["searchers"][s]["metrics"].num_queries =
                    Cardinality({q \in QueryIds : QueryGrades(s, q) # << >>})
\* A returned run with one searcher reported and another, whose searches
\* found nothing, left out.
C12_Witness ==
    /\ run_pc = "returned"
    /\ queries # << >>
    /\ \E s, t \in Searchers :
          /\ grades[s] = << >> /\ s \notin Reported
          /\ Len(grades[t]) > MaxResults /\ t \in Reported
\* The metrics a direct call returned, and the grade list it was given.
MetricsReturned == returned.done /\ call.fn = "compute_retrieval_metrics"
\* The grades of a list in a fixed order: by query id, rank and is_match.
Before(g, h) ==
    \/ g.query_id < h.query_id
    \/ g.query_id = h.query_id /\ g.rank < h.rank
    \/ g.query_id = h.query_id /\ g.rank = h.rank /\ g.is_match < h.is_match
Canonical(list) ==
    LET Position(i) ==
            1 + Cardinality({j \in 1..Len(list) :
                                Before(list[j], list[i]) \/ (list[j] = list[i] /\ j < i)})
    IN [p \in 1..Len(list) |-> list[CHOOSE i \in 1..Len(list) : Position(i) = p]]

\* C14: compute_retrieval_metrics returns the same metrics for every
\* permutation of its argument: what it returns for a list is what it
\* returns, under the same interpreter, for the same grades sorted by query
\* id, rank and is_match.  (Every rank of the argument lists is a positive
\* integer.)
C14_PermutationInvariant ==
    MetricsReturned =>
        returned.value = compute_retrieval_metrics(Canonical(call.grades), returned.impl)
\* The query ids of a grade list, and the ranks at which a query has a match.
IdsOf(list) == {list[i].query_id : i \in 1..Len(list)}
MatchRanks(list, q) ==
    {list[i].rank : i \in {j \in 1..Len(list) : list[j].query_id = q /\ list[j].is_match = 1}}
\* The queries whose lowest-ranked match has rank 1, or a rank up to 10.
MatchedFirst(list) == {q \in IdsOf(list) : 1 \in MatchRanks(list, q)}
MatchedInTen(list) == {q \in IdsOf(list) : \E r \in MatchRanks(list, q) : r <= 10}

\* C15: a query contributes 1.0 to match exactly when its lowest-ranked match
\* has rank 1, and 1.0 to recall_at_10 exactly when it has a match of rank at
\* most 10, whatever the order of the argument: the returned match and
\* recall_at_10 are the numbers of such queries divided by the number of
\* queries.  (A query without match, or with its first match at rank 11 or
\* more, contributes 0.0 to both.)
C15_MatchAndRecallContributions ==
    (MetricsReturned /\ call.grades # << >>) =>
        LET n == Cardinality(IdsOf(call.grades))
        IN /\ returned.value.match =
                 FloatDiv[FloatOf(Cardinality(MatchedFirst(call.grades))), n]
           /\ returned.value.recall_at_10 =
                 FloatDiv[FloatOf(Cardinality(MatchedInTen(call.grades))), n]
\* Query 2 has its match of rank 11 before its match of rank 10 in the
\* argument and query 1 has no match: match is 0.0, recall_at_10 is 0.5.
C15_Witness ==
    /\ MetricsReturned
    /\ IdsOf(call.grades) = {1, 2}
    /\ MatchRanks(call.grades, 1) = {}
    /\ \E i, j \in 1..Len(call.grades) :
          /\ i < j
          /\ call.grades[i] = [query_id |-> 2, rank |-> 11, is_match |-> 1]
          /\ call.grades[j] = [query_id |-> 2, rank |-> 10, is_match |-> 1]
    /\ returned.value.match = Zero
    /\ returned.value.recall_at_10 = FloatDiv[One, 2]
\* Exact fractions <<numerator, denominator>> in lowest terms.
RECURSIVE GCD(_, _)
GCD(a, b) == IF b = 0 THEN a ELSE GCD(b, a % b)
Frac(n, d) == LET g == GCD(n, d) IN IF n = 0 THEN <<0, 1>> ELSE <<n \div g, d \div g>>
FracAdd(x, y) == Frac(x[1] * y[2] + y[1] * x[2], x[2] * y[2])
RECURSIVE FracSum(_, _)
FracSum(f, dom) ==
    IF dom = {} THEN <<0, 1>>
    ELSE LET x == CHOOSE y \in dom : TRUE IN FracAdd(f[x], FracSum(f, dom \ {x}))
\* a * n for a small n.
MagTimesCarry[a \in Mags, n \in 0..Base, i \in 1..(Limbs + 1)] ==
    IF i = Limbs + 1 THEN 0 ELSE (a[i] * n + MagTimesCarry[a, n, i + 1]) \div Base
MagTimes[a \in Mags, n \in 0..Base] ==
    [i \in 1..Limbs |-> (a[i] * n + MagTimesCarry[a, n, i + 1]) % Base]
MagDistance(a, b) == IF MagLess[a, b] THEN MagSub[b, a] ELSE MagSub[a, b]
\* The float x is the fraction, up to the rounding of a few float operations:
\* they differ by at most 2^-50.
Close(x, frac) ==
    /\ ~x.neg
    /\ ~MagLess[MagTimes[PowerOfTwo(14), frac[2]],
                MagDistance(MagTimes[x.mag, frac[2]], MagOf(frac[1]))]
\* The grades of query q, and the fraction of them that match.
Of(list, q) == {i \in 1..Len(list) : list[i].query_id = q}
PrecisionOf(list, q) ==
    Frac(Cardinality({i \in Of(list, q) : list[i].is_match = 1}), Cardinality(Of(list, q)))
\* The mean over the queries of a list of a fraction per query.
MeanOver(list, PerQueryFrac(_)) ==
    LET total == FracSum([q \in IdsOf(list) |-> PerQueryFrac(q)], IdsOf(list))
    IN Frac(total[1], total[2] * Cardinality(IdsOf(list)))

Answered(s) == {q \in QueryIds : found[s][q] # << >>}

\* C17: in the report of a returned run, a searcher's num_queries is the
\* number of distinct query ids in its grade list, which is the number of
\* its queries whose search returned at least one result; a query with no
\* result is in no denominator: match and recall_at_10 are the numbers of
\* contributing queries divided by num_queries.
C17_NumQueriesCountsGradedQueries ==
    run_pc = "returned" =>
        \A s \in Reported :
            LET metrics == report["searchers"][s]["metrics"]
            IN /\ metrics.num_queries = Cardinality(IdsOf(grades[s]))
               /\ metrics.num_queries = Cardinality(Answered(s))
               /\ metrics.match =
                     FloatDiv[FloatOf(Cardinality(MatchedFirst(grades[s]))),
                              Cardinality(Answered(s))]
               /\ metrics.recall_at_10 =
                     FloatDiv[FloatOf(Cardinality(MatchedInTen(grades[s]))),
                              Cardinality(Answered(s))]
\* One query of a searcher returned no result, the other one result, graded
\* a match: the report counts one query, with match 1.0.
C17_Witness ==
    /\ run_pc = "returned"
    /\ Len(queries) = 2
    /\ \E s \in Reported :
          /\ Cardinality(Answered(s)) = 1
          /\ report["searchers"][s]["metrics"].num_queries = 1
          /\ report["searchers"][s]["metrics"].match = One
\* C18: called with the empty list, compute_retrieval_metrics returns (it
\* does not fault) metrics with match, recall_at_10 and precision 0 and
\* num_queries 0.
C18_EmptyListGivesZeros ==
    (MetricsReturned /\ call.grades = << >>) =>
        /\ DOMAIN returned.value = {"match", "recall_at_10", "precision", "num_queries"}
        /\ returned.value.match = Zero
        /\ returned.value.recall_at_10 = Zero
        /\ returned.value.precision = Zero
        /\ returned.value.num_queries = 0
\* The call with the empty list has returned.
C18_Witness == MetricsReturned /\ call.grades = << >> /\ returned.value.num_queries = 0
\* C19: when the content fetch succeeded, enrich_results returns a list of
\* the same length and order in which every result keeps its url, title and
\* metadata; a result whose url is a key of the fetched mapping has the
\* mapped text, and every other result (the ones with an empty url too) keeps
\* its own text.
C19_EnrichKeepsAllButFetchedText ==
    (returned.done /\ call.fn = "enrich_results" /\ ~call.fetched.raised) =>
        LET given == call.results
            contents == call.fetched.contents
        IN /\ Len(returned.value) = Len(given)
           /\ \A i \in 1..Len(given) :
                 /\ returned.value[i].url = given[i].url
                 /\ returned.value[i].title = given[i].title
                 /\ returned.value[i].metadata = given[i].metadata
                 /\ returned.value[i].text =
                       IF given[i].url \in DOMAIN contents THEN contents[given[i].url]
                       ELSE given[i].text
\* Three results: the first's url is fetched, the second's url is empty, the
\* third's url is not in the mapping, which holds a url of no result.
C19_Witness ==
    /\ returned.done
    /\ call.fn = "enrich_results"
    /\ ~call.fetched.raised
    /\ DOMAIN call.fetched.contents = {"u1", "u9"}
    /\ Len(call.results) = 3
    /\ call.results[1].url = "u1" /\ returned.value[1].text = Page("u1")
    /\ call.results[2].url = "" /\ returned.value[2].text = call.results[2].text
    /\ call.results[3].url = "u3" /\ returned.value[3].text = call.results[3].text
\* The positions of grades[s] holding the grade of result r of query q.
GradesOf(s, q, r) ==
    {i \in 1..Len(grades[s]) : grades[s][i].query_id = q /\ grades[s][i].rank = r}
\* C20: when run has returned (every search and grading call returned), the
\* grade list of each searcher holds exactly one grade for every result the
\* searcher returned for every query and no other grade, the grades of one
\* query are next to each other, and their ranks ascend.
C20_OneGradePerResultInBlocks ==
    (run_pc = "returned" /\ queries # << >>) =>
        \A s \in Searchers :
            /\ \A q \in QueryIds, r \in 1..MaxResults :
                  Cardinality(GradesOf(s, q, r)) =
                      IF InQueries(q) /\ r <= Len(found[s][q]) THEN 1 ELSE 0
            /\ \A i \in 1..Len(grades[s]) :
                  /\ grades[s][i].query_id \in QueryIds
                  /\ grades[s][i].rank \in 1..MaxResults
            /\ \A i, k \in 1..Len(grades[s]) :
                  (i < k /\ grades[s][i].query_id = grades[s][k].query_id) =>
                      /\ grades[s][i].rank < grades[s][k].rank
                      /\ \A j \in i..k : grades[s][j].query_id = grades[s][i].query_id
\* Both queries of one searcher were in flight together and the second was
\* collected first: its block of two grades precedes the first query's.
C20_Witness ==
    /\ run_pc = "returned"
    /\ \E s \in Searchers :
          /\ Len(grades[s]) = 4
          /\ grades[s][1].query_id = 2 /\ grades[s][1].rank = 1
          /\ grades[s][2].query_id = 2 /\ grades[s][2].rank = 2
          /\ grades[s][3].query_id = 1 /\ grades[s][3].rank = 1
          /\ grades[s][4].query_id = 1 /\ grades[s][4].rank = 2
\* A grade list as _run_searcher hands it to aggregation: the grades of each
\* query form one block, with the ranks 1, 2, ... in order (C7, C20).  The
\* order of the blocks is the order in which the process tasks finished.
HandedOver(list) ==
    \A i \in 1..Len(list) :
        /\ list[i].rank =
              1 + Cardinality({j \in 1..(i - 1) : list[j].query_id = list[i].query_id})
        /\ \A k \in i..Len(list) :
              list[k].query_id = list[i].query_id =>
                  \A j \in i..k : list[j].query_id = list[i].query_id
\* C13: the metrics reported for a searcher do not depend on the order in
\* which its queries completed: for a grade list as a run hands it over, the
\* metrics are those of the run with the same results and judgments whose
\* queries completed in dataset order, under the same interpreter.
C13_CompletionOrderIrrelevant ==
    (MetricsReturned /\ HandedOver(call.grades)) =>
        LET InDatasetOrder == Canonical(call.grades)
        IN /\ HandedOver(InDatasetOrder)
           /\ returned.value.match =
                 compute_retrieval_metrics(InDatasetOrder, returned.impl).match
           /\ returned.value.recall_at_10 =
                 compute_retrieval_metrics(InDatasetOrder, returned.impl).recall_at_10
           /\ returned.value.precision =
                 compute_retrieval_metrics(InDatasetOrder, returned.impl).precision
           /\ returned.value.num_queries =
                 compute_retrieval_metrics(InDatasetOrder, returned.impl).num_queries
\* The queries a searcher's process tasks were started for.
Processed(s) == {q \in QueryIds : unit[s][q] # "none"}
\* The ids of the first n queries of the dataset.
FirstOf(n) == {dataset[i] : i \in {j \in 1..Len(dataset) : j <= n}}
\* C21: once run has loaded the queries, with a limit L >= 0 configured each
\* searcher processes at most L queries, all among the first L of the
\* dataset, and the queries of the run are the dataset's first L in dataset
\* order; with no limit the queries of the run are the whole dataset.
C21_LimitCapsQueries ==
    run_pc # "start" =>
        IF config.limit = None
        THEN queries = dataset
        ELSE LET L == config.limit[1]
             IN /\ Len(queries) <= L
                /\ queries = SubSeq(dataset, 1, IF L < Len(dataset) THEN L ELSE Len(dataset))
                /\ \A s \in Searchers :
                      /\ Cardinality(Processed(s)) <= L
                      /\ Processed(s) \subseteq FirstOf(L)
\* x < y and x <= y on floats.
FloatLess(x, y) ==
    IF x.neg # y.neg THEN x.neg
    ELSE IF x.neg THEN MagLess[y.mag, x.mag]
    ELSE MagLess[x.mag, y.mag]
FloatLeq(x, y) == ~FloatLess(y, x)
\* C22: for every grade list with is_match 0 or 1 and positive ranks, the
\* metrics compute_retrieval_metrics returns satisfy
\* 0 <= match <= recall_at_10 <= 1 and 0 <= precision <= 1, and a positive
\* recall_at_10 comes with a positive precision.
C22_MetricsInUnitInterval ==
    MetricsReturned =>
        /\ FloatLeq(Zero, returned.value.match)
        /\ FloatLeq(returned.value.match, returned.value.recall_at_10)
        /\ FloatLeq(returned.value.recall_at_10, One)
        /\ FloatLeq(Zero, returned.value.precision)
        /\ FloatLeq(returned.value.precision, One)
        /\ FloatLess(Zero, returned.value.recall_at_10) =>
              FloatLess(Zero, returned.value.precision)
\* Three queries: one matched at rank 1, one matched first at rank 2, one
\* matched only beyond rank 10; every inequality is strict.
C22_Witness ==
    /\ MetricsReturned
    /\ returned.value.num_queries = 3
    /\ \E i \in 1..Len(call.grades) : call.grades[i].rank > 10
    /\ FloatLess(Zero, returned.value.match)
    /\ FloatLess(returned.value.match, returned.value.recall_at_10)
    /\ FloatLess(returned.value.recall_at_10, One)
    /\ FloatLess(Zero, returned.value.precision)
    /\ FloatLess(returned.value.precision, One)
====
